---- MODULE Spec2Model ----
(***************************************************************************)
(* Model of the configuration resolution pipeline of tmpl:                 *)
(*   internal/values/loader.go  Loader.Load, readValuesFile,              *)
(*                              decryptValues, decryptValue               *)
(*   internal/source            gitSource.Fetch, basicAuthFromEnv         *)
(*   internal/env               Resolver.Expand, Resolver.ExpandMap       *)
(*   dario.cat/mergo            Merge(&dst, src, WithOverride)            *)
(*                                                                         *)
(* A Go string is a sequence of tokens; the suffix ".enc" is one token and *)
(* every other token is a run of characters that holds no ".enc".          *)
(* A decoded YAML value (Go `any`) is a record [t, v]:                     *)
(*   t = "map"  v = function from keys to values   (map[string]any)        *)
(*   t = "list" v = sequence of values             ([]any)                 *)
(*   t = "str"  v = string, "num" v = integer, "bool", "null"              *)
(***************************************************************************)
EXTENDS Integers, Sequences, FiniteSets, TLC

VARIABLES
    pc, chartFile, extraFiles, idx, baseValues, result, err,
    readLog, decLog,
    dIn, dOut,
    mAcc, mPrev, mInc, mLayers,
    gEnv, gWorld, gPc, gRepo, gErr, gClones, gData,
    xText, xTable, xOut,
    eValues, eTable, eOut

loadVars == <<pc, chartFile, extraFiles, idx, baseValues, result, err,
              readLog, decLog>>
decVars == <<dIn, dOut>>
mergeVars == <<mAcc, mPrev, mInc, mLayers>>
gitVars == <<gEnv, gWorld, gPc, gRepo, gErr, gClones, gData>>
expandVars == <<xText, xTable, xOut>>
expandMapVars == <<eValues, eTable, eOut>>
vars == <<loadVars, decVars, mergeVars, gitVars, expandVars, expandMapVars>>

(***************************************************************************)
(* Bounds of the model.                                                    *)
(***************************************************************************)
MaxExtra == 2
MaxLayers == 2
MaxPieces == 4

(***************************************************************************)
(* Strings.                                                                *)
(***************************************************************************)
Enc == <<".enc">>

HasSuffix(s, suf) ==
    /\ Len(s) >= Len(suf)
    /\ SubSeq(s, Len(s) - Len(suf) + 1, Len(s)) = suf

TrimSuffix(s, suf) ==
    IF HasSuffix(s, suf) THEN SubSeq(s, 1, Len(s) - Len(suf)) ELSE s

\* Byte order of the tokens used in keys: '.' sorts before every letter, and
\* no word token is a prefix of another, so comparing token by token is
\* comparing byte by byte.
TokenRank(tok) ==
    CASE tok = ".enc" -> 0
      [] tok = "a" -> 1
      [] tok = "b" -> 2
      [] tok = "k" -> 3
      [] tok = "memo" -> 4
      [] tok = "token" -> 5
      [] tok = "x" -> 6
      [] tok = "y" -> 7
      [] tok = "z" -> 8

RECURSIVE StringLess(_, _)
StringLess(s, u) ==
    IF s = <<>> THEN u # <<>>
    ELSE IF u = <<>> THEN FALSE
    ELSE IF Head(s) = Head(u) THEN StringLess(Tail(s), Tail(u))
    ELSE TokenRank(Head(s)) < TokenRank(Head(u))

\* The keys in descending order: an order other than the one sort.Strings
\* gives, as ranging over the map may give.
RECURSIVE SortStringsDescending(_)
SortStringsDescending(S) ==
    IF S = {} THEN <<>>
    ELSE LET most == CHOOSE k \in S : \A o \in S \ {k} : StringLess(o, k)
         IN  <<most>> \o SortStringsDescending(S \ {most})

\* sort.Strings over the keys of a map: the keys in ascending order.
RECURSIVE SortStrings(_)
SortStrings(S) ==
    IF S = {} THEN <<>>
    ELSE LET least == CHOOSE k \in S : \A o \in S \ {k} : StringLess(k, o)
         IN  <<least>> \o SortStrings(S \ {least})

(***************************************************************************)
(* Values.                                                                 *)
(***************************************************************************)
Str(s) == [t |-> "str", v |-> s]
Num(n) == [t |-> "num", v |-> n]
Bool(b) == [t |-> "bool", v |-> b]
Null == [t |-> "null", v |-> <<>>]
List(l) == [t |-> "list", v |-> l]
Map(f) == [t |-> "map", v |-> f]
EmptyMap == Map(<<>>)
K(w) == <<w>>
KEnc(w) == <<w, ".enc">>
One(k, val) == Map(k :> val)
Two(k1, v1, k2, v2) == Map((k1 :> v1) @@ (k2 :> v2))

(***************************************************************************)
(* internal/sops: the decryptor.  What `sops -d path` answers is outside   *)
(* the program; the world below fixes one answer per encrypted file.       *)
(***************************************************************************)
NoErr == "nil"
ChartDir == <<"chart/">>
RemoteDir == <<>>

\* The file name of a path: the path without its directory.
FileName(path) ==
    IF Len(path) > 0 /\ Head(path) \in {"chart/", "/"} THEN Tail(path) ELSE path

\* cmd.CombinedOutput() of `sops -d path`: the output, and the error with
\* whether its chain holds fs.ErrNotExist (every wrapper on the way up uses %w).
SopsRun(path) ==
    LET name == FileName(path)
    IN  CASE name = <<"s1", ".enc">> ->
               [err |-> NoErr, kind |-> "yaml", node |-> Str(<<"secret123">>)]
          [] name = <<"s2", ".enc">> ->
               [err |-> NoErr, kind |-> "yaml",
                node |-> One(KEnc("k"), Str(<<"v">>))]
          [] name = <<"s3", ".enc">> ->
               [err |-> NoErr, kind |-> "blank", node |-> Str(<<>>)]
          [] name = <<"s4", ".enc">> ->
               [err |-> NoErr, kind |-> "text", node |-> Str(<<"{oops">>)]
          [] name = <<"gone", ".enc">> ->
               [err |-> "sopsNotExist", kind |-> "blank", node |-> Null]
          [] OTHER ->
               [err |-> "sops", kind |-> "blank", node |-> Null]

DecryptFile(path) ==
    IF path = <<>>
    THEN [err |-> "missingPath", kind |-> "blank", node |-> Null]
    ELSE SopsRun(path)

(***************************************************************************)
(* Loader.decryptValue and Loader.decryptValues.  Each returns             *)
(* [err, val, log]: the error, the processed value (Null with an error),   *)
(* and the paths handed to DecryptFile, in call order.                     *)
(***************************************************************************)
IsAbs(ref) == Len(ref) > 0 /\ Head(ref) = "/"

Join(baseDir, ref) == baseDir \o ref

DecryptValue(ref, baseDir) ==
    LET path == IF ~IsAbs(ref) /\ baseDir # <<>> THEN Join(baseDir, ref) ELSE ref
        out == DecryptFile(path)
    IN  IF out.err # NoErr
        THEN [err |-> out.err, val |-> Null, log |-> <<path>>]
        ELSE IF out.kind = "blank"
        THEN [err |-> NoErr, val |-> Str(<<>>), log |-> <<path>>]
        ELSE [err |-> NoErr, val |-> out.node, log |-> <<path>>]

RECURSIVE DecryptValues(_, _)
RECURSIVE DecryptKeys(_, _, _, _, _)
RECURSIVE DecryptItems(_, _, _, _, _)

\* The loop over the sorted keys of a mapping, from the keys still to visit.
DecryptKeys(v, keys, baseDir, res, log) ==
    IF keys = <<>>
    THEN [err |-> NoErr, val |-> Map(res), log |-> log]
    ELSE LET key == Head(keys)
             r == DecryptValues(v[key], baseDir)
             newKey == TrimSuffix(key, Enc)
         IN  IF r.err # NoErr
             THEN [err |-> r.err, val |-> Null, log |-> log \o r.log]
             ELSE DecryptKeys(v, Tail(keys), baseDir,
                              (newKey :> r.val) @@ res, log \o r.log)

\* The loop over the elements of a list, from index i.
DecryptItems(v, i, baseDir, res, log) ==
    IF i > Len(v)
    THEN [err |-> NoErr, val |-> List(res), log |-> log]
    ELSE LET r == DecryptValues(v[i], baseDir)
         IN  IF r.err # NoErr
             THEN [err |-> r.err, val |-> Null, log |-> log \o r.log]
             ELSE DecryptItems(v, i + 1, baseDir, Append(res, r.val), log \o r.log)

DecryptValues(node, baseDir) ==
    CASE node.t = "map" ->
           DecryptKeys(node.v, SortStrings(DOMAIN node.v), baseDir, <<>>, <<>>)
      [] node.t = "list" ->
           DecryptItems(node.v, 1, baseDir, <<>>, <<>>)
      [] node.t = "str" ->
           IF ~HasSuffix(node.v, Enc)
           THEN [err |-> NoErr, val |-> node, log |-> <<>>]
           ELSE DecryptValue(node.v, baseDir)
      [] OTHER -> [err |-> NoErr, val |-> node, log |-> <<>>]

(***************************************************************************)
(* mergo.Merge(&baseValues, data, mergo.WithOverride), on map[string]any:  *)
(* mergo's deepMerge, reflect.Map case.  Each key of src touches only the  *)
(* entry of dst under the same key, so the map iteration order is          *)
(* immaterial and the loop is written as a function over the keys.         *)
(***************************************************************************)
\* Merge called without the option mergo.WithOverride.
OverwriteUnset == FALSE

\* config.Overwrite, set by the option mergo.WithOverride.
Overwrite == TRUE

\* mergo's isEmptyValue.
IsEmptyValue(d) ==
    CASE d.t \in {"map", "list", "str"} -> DOMAIN d.v = {}
      [] d.t = "num" -> d.v = 0
      [] d.t = "bool" -> ~d.v
      [] OTHER -> TRUE

\* A merge that never recurses: a mapping of src replaces the one of dst.
NeverBothMaps(hasDst, d, s) == FALSE

\* Both elements are mappings: deepMerge recurses into the pair.
BothMaps(hasDst, d, s) == hasDst /\ d.t = "map" /\ s.t = "map"

\* The keys of the merged map: a nil source element is stored only when
\* overwriting.
MergedKeys(dst, src) ==
    DOMAIN dst \cup {k \in DOMAIN src : Overwrite \/ src[k].t # "null"}

RECURSIVE DeepMerge(_, _)
\* dst[key] after the loop body for one key of src; d is dst[key] before it
\* (read only when hasDst).
MergeElement(hasDst, d, s) ==
    IF s.t = "null" THEN (IF Overwrite THEN s ELSE d)
    ELSE IF BothMaps(hasDst, d, s)
    THEN LET m == DeepMerge(d.v, s.v)
         IN  IF DOMAIN m # {} THEN Map(m) ELSE s
    ELSE IF Overwrite \/ ~hasDst \/ IsEmptyValue(d) THEN s ELSE d

DeepMerge(dst, src) ==
    [k \in MergedKeys(dst, src) |->
        IF k \notin DOMAIN src THEN dst[k]
        ELSE MergeElement(k \in DOMAIN dst,
                          IF k \in DOMAIN dst THEN dst[k] ELSE Null, src[k])]

Merge(dst, src) == Map(DeepMerge(dst.v, src.v))

(***************************************************************************)
(* The files Load is given.  A file is [path, scheme, fetch, doc]:         *)
(*   path    "" or a name (readValuesFile rejects the empty path)          *)
(*   scheme  source.ParseScheme(path)                                      *)
(*   fetch   how os.ReadFile / Factory.New + Source.Fetch ends:            *)
(*           "ok", "notexist" (fs.ErrNotExist), "fail" (any other error),  *)
(*           "badurl" (Factory.New fails)                                  *)
(*   doc     what yaml.Unmarshal makes of the bytes handed back, after     *)
(*           Expand: kind "empty" (no bytes, or no document: the target    *)
(*           map stays empty), "bad" (decode error) or "map" with the      *)
(*           decoded tree.  A failed read hands back no bytes or, from     *)
(*           io.ReadAll, the part read so far.                             *)
(***************************************************************************)
EmptyDoc == [kind |-> "empty", tree |-> EmptyMap]
BadDoc == [kind |-> "bad", tree |-> EmptyMap]
TreeDoc(tree) == [kind |-> "map", tree |-> tree]

File(path, scheme, fetch, doc) ==
    [path |-> path, scheme |-> scheme, fetch |-> fetch, doc |-> doc]

LoadTrees ==
    { One(K("a"), Num(1)),
      One(K("a"), One(K("x"), Num(1))),
      One(K("a"), List(<<>>)),
      One(K("b"), Str(<<"scalar">>)),
      One(KEnc("token"), Str(<<"s1", ".enc">>)),
      One(KEnc("token"), Str(<<"bad", ".enc">>)),
      One(KEnc("token"), Str(<<"gone", ".enc">>)) }

LocalFiles ==
    { File("f", "local", "ok", d) : d \in {EmptyDoc, BadDoc} \cup {TreeDoc(tr) : tr \in LoadTrees} }
    \cup { File("f", "local", "notexist", EmptyDoc), File("f", "local", "fail", EmptyDoc) }

RemoteFiles ==
    { File("f", "git", "ok", TreeDoc(One(K("a"), Num(2)))),
      File("f", "git", "fail", EmptyDoc),
      File("f", "git", "badurl", EmptyDoc),
      File("f", "s3", "fail", EmptyDoc),
      File("f", "oci", "fail", TreeDoc(One(K("b"), Str(<<"scalar">>)))) }

\* filepath.Join(chartPath, "values.yaml") is never empty; it keeps a "git+"
\* prefix of chartPath and collapses the "//" of "s3://" and "oci://".
BaseFiles == LocalFiles \cup {f \in RemoteFiles : f.scheme = "git"}

ExtraFiles == LocalFiles \cup RemoteFiles \cup {File("", "local", "notexist", EmptyDoc)}

SeqsUpTo(S, n) == UNION {[1..m -> S] : m \in 0..n}

(***************************************************************************)
(* Loader.readValuesFile.  Returns [err, notExist, val, log]: the error,   *)
(* whether errors.Is(err, fs.ErrNotExist), the tree (Null for a nil map)   *)
(* and the paths handed to DecryptFile.                                    *)
(***************************************************************************)
ReadResult(e, notExist, val, log) ==
    [err |-> e, notExist |-> notExist, val |-> val, log |-> log]

\* The err tested at line 103.  In the else branch `src, err := ...` declares
\* a second err, and `data, err = src.Fetch(ctx)` assigns that one: the err
\* of the function body is still nil after a remote fetch.
ErrAfterRead(f) ==
    IF f.scheme = "local"
    THEN (IF f.fetch = "ok" THEN NoErr ELSE f.fetch)
    ELSE NoErr

\* The bytes in data at line 110: os.ReadFile's or Fetch's first result.
DataAfterRead(f) == f.doc

BaseDirOf(f) == IF f.scheme = "local" THEN ChartDir ELSE RemoteDir

\* Lines 110-129: Expand (its error is always nil), decode, decrypt.
DecodeAndDecrypt(doc, baseDir) ==
    IF doc.kind = "bad"
    THEN ReadResult("decode", FALSE, Null, <<>>)
    ELSE LET r == DecryptValues(doc.tree, baseDir)
         IN  IF r.err # NoErr
             THEN ReadResult("decrypt", r.err = "sopsNotExist", Null, r.log)
             ELSE ReadResult(NoErr, FALSE, r.val, r.log)

ReadValuesFile(f) ==
    IF f.path = ""
    THEN ReadResult("emptyPath", FALSE, Null, <<>>)
    ELSE IF f.scheme # "local" /\ f.fetch = "badurl"
    THEN ReadResult("source", FALSE, Null, <<>>)
    ELSE IF ErrAfterRead(f) # NoErr
    THEN ReadResult("read", ErrAfterRead(f) = "notexist", Null, <<>>)
    ELSE DecodeAndDecrypt(DataAfterRead(f), BaseDirOf(f))

(***************************************************************************)
(* Loader.Load: one action per call of readValuesFile with what follows    *)
(* it, and one for the return after the loop.                              *)
(***************************************************************************)
NoTree == Null

\* What the log keeps of a read: the file's index (0 is the base file) and
\* what readValuesFile returned.
ReadEntry(i, r) == [i |-> i, err |-> r.err]

IdleLoad ==
    /\ pc = "idle" /\ chartFile = File("", "local", "ok", EmptyDoc)
    /\ extraFiles = <<>> /\ idx = 0 /\ baseValues = EmptyMap
    /\ result = NoTree /\ err = NoErr
    /\ readLog = <<>> /\ decLog = <<>>

\* Lines 61-67.
ReadBase ==
    /\ pc = "base"
    /\ LET r == ReadValuesFile(chartFile)
       IN  /\ readLog' = Append(readLog, ReadEntry(0, r))
           /\ decLog' = decLog \o r.log
           /\ IF r.err # NoErr /\ ~r.notExist
              THEN /\ pc' = "done" /\ err' = r.err /\ result' = NoTree
                   /\ UNCHANGED <<baseValues, idx>>
              ELSE /\ baseValues' = (IF r.val.t = "null" THEN EmptyMap ELSE r.val)
                   /\ pc' = "extra" /\ idx' = 1
                   /\ UNCHANGED <<err, result>>
    /\ UNCHANGED <<chartFile, extraFiles>>

\* Lines 69-77, one iteration.  mergo.Merge returns no error for two
\* map[string]any.
ReadExtra ==
    /\ pc = "extra" /\ idx <= Len(extraFiles)
    /\ LET r == ReadValuesFile(extraFiles[idx])
       IN  /\ readLog' = Append(readLog, ReadEntry(idx, r))
           /\ decLog' = decLog \o r.log
           /\ IF r.err # NoErr
              THEN /\ pc' = "done" /\ err' = r.err /\ result' = NoTree
                   /\ UNCHANGED <<baseValues, idx>>
              ELSE /\ baseValues' = Merge(baseValues, r.val)
                   /\ idx' = idx + 1
                   /\ UNCHANGED <<pc, err, result>>
    /\ UNCHANGED <<chartFile, extraFiles>>

\* Line 79.
Return ==
    /\ pc = "extra" /\ idx > Len(extraFiles)
    /\ pc' = "done" /\ result' = baseValues /\ err' = NoErr
    /\ UNCHANGED <<chartFile, extraFiles, idx, baseValues, readLog, decLog>>

InitLoad ==
    /\ pc = "base"
    /\ chartFile \in BaseFiles
    /\ extraFiles \in SeqsUpTo(ExtraFiles, MaxExtra)
    /\ idx = 0 /\ baseValues = EmptyMap
    /\ result = NoTree /\ err = NoErr
    /\ readLog = <<>> /\ decLog = <<>>

(***************************************************************************)
(* The tree decryptor on its own: decryptValues applied to a decoded tree. *)
(***************************************************************************)
Pending == [err |-> "pending", val |-> Null, log |-> <<>>]

IdleDecrypt == dIn = [node |-> EmptyMap, baseDir |-> RemoteDir] /\ dOut = Pending

DecKeys == {K("a"), K("memo"), KEnc("token"), <<"a", ".enc", ".enc">>}

DecLeaves ==
    { Str(<<"plain">>), Str(<<"s1", ".enc">>), Str(<<"s2", ".enc">>),
      Str(<<"s3", ".enc">>), Str(<<"s4", ".enc">>), Str(<<"/", "s1", ".enc">>),
      Str(<<"bad", ".enc">>), Str(<<"gone", ".enc">>),
      Num(5), Bool(TRUE), Null }

DecValues ==
    DecLeaves
    \cup { List(<<Str(<<"s1", ".enc">>), Num(5)>>), List(<<Str(<<"plain">>)>>),
           List(<<One(KEnc("k"), Str(<<"s1", ".enc">>))>>),
           One(KEnc("k"), Str(<<"s1", ".enc">>)),
           One(K("k"), Str(<<"s1", ".enc">>)),
           One(KEnc("k"), Num(5)),
           One(KEnc("k"), Str(<<"plain">>)) }

\* Trees with two keys below the root, and with secrets at two depths.
DecNested ==
    { One(K("a"), Two(K("x"), Str(<<"bad", ".enc">>), K("k"), Str(<<"gone", ".enc">>))),
      Two(K("a"), One(K("k"), Str(<<"s1", ".enc">>)), K("memo"), Str(<<"s3", ".enc">>)),
      Two(K("b"), List(<<Str(<<"s1", ".enc">>), Str(<<"bad", ".enc">>)>>),
          K("a"), Str(<<"s3", ".enc">>)),
      Two(K("b"), One(K("y"), Str(<<"gone", ".enc">>)),
          K("a"), Two(K("z"), Str(<<"s4", ".enc">>), K("x"), Str(<<"s1", ".enc">>))) }

DecTrees ==
    { One(k, val) : k \in DecKeys, val \in DecValues }
    \cup DecNested
    \cup { Two(k1, v1, k2, v2) :
             k1 \in {K("a"), KEnc("token")}, k2 \in {K("memo"), <<"a", ".enc">>},
             v1 \in {Str(<<"bad", ".enc">>), Str(<<"s1", ".enc">>), Num(5)},
             v2 \in {Str(<<"gone", ".enc">>), Str(<<"s3", ".enc">>), Str(<<"plain">>)} }

InitDecrypt ==
    /\ dIn \in [node : DecTrees, baseDir : {ChartDir, RemoteDir}]
    /\ dOut = Pending

ResolveSecrets ==
    /\ dOut = Pending
    /\ dOut' = DecryptValues(dIn.node, dIn.baseDir)
    /\ UNCHANGED dIn

(***************************************************************************)
(* The merge engine on its own: layers merged one after the other into an  *)
(* accumulator, as the loop of Load does.                                  *)
(***************************************************************************)
IdleMerge ==
    mAcc = EmptyMap /\ mPrev = EmptyMap /\ mInc = EmptyMap /\ mLayers = <<>>

MergeTrees ==
    { EmptyMap,
      One(K("a"), Num(1)), One(K("a"), Str(<<"scalar">>)),
      One(K("a"), Num(0)), One(K("a"), Str(<<>>)), One(K("a"), Bool(FALSE)),
      One(K("a"), Null), One(K("a"), List(<<>>)), One(K("a"), List(<<Num(1)>>)),
      One(K("a"), EmptyMap),
      One(K("a"), One(K("x"), Num(1))),
      One(K("a"), Two(K("x"), Num(1), K("y"), Num(2))),
      One(K("a"), Two(K("y"), Num(3), K("z"), Num(4))),
      One(K("a"), One(K("x"), One(K("k"), Num(1)))),
      One(K("a"), One(K("x"), One(K("z"), Num(2)))),
      One(K("a"), One(K("x"), Str(<<"scalar">>))),
      One(K("a"), One(K("x"), List(<<>>))),
      One(K("b"), Num(1)),
      Two(K("a"), One(K("x"), Num(1)), K("b"), Num(2)),
      One(K("b"), One(K("y"), Null)) }

InitMerge ==
    /\ mAcc \in MergeTrees
    /\ mPrev = EmptyMap /\ mInc = EmptyMap
    /\ mLayers = <<mAcc>>

MergeLayer ==
    /\ Len(mLayers) <= MaxLayers
    /\ \E inc \in MergeTrees :
         /\ mPrev' = mAcc
         /\ mInc' = inc
         /\ mAcc' = Merge(mAcc, inc)
         /\ mLayers' = Append(mLayers, inc)

(***************************************************************************)
(* gitSource.Fetch.  gEnv is the process environment read by               *)
(* basicAuthFromEnv ("" is what os.Getenv gives for an unset variable);    *)
(* gWorld is how each remote or file system call ends:                     *)
(*   anon, auth   the clone without / with credentials succeeds            *)
(*   ref          g.ref is not empty                                       *)
(*   worktree, branch, hash, read   repo.Worktree, the checkout as a       *)
(*                branch, the checkout as a hash, os.ReadFile succeed      *)
(***************************************************************************)
NoAuth == [set |-> FALSE, user |-> "", pass |-> ""]

\* Credentials built whatever the environment holds.
BasicAuthAlways(env) == [set |-> TRUE, user |-> env.user, pass |-> env.pass]

BasicAuthFromEnv(env) ==
    IF env.user = "" /\ env.pass = ""
    THEN NoAuth
    ELSE [set |-> TRUE, user |-> env.user, pass |-> env.pass]

IdleGit ==
    /\ gEnv = [user |-> "", pass |-> ""]
    /\ gWorld = [anon |-> TRUE, auth |-> TRUE, ref |-> FALSE, worktree |-> TRUE,
                 branch |-> TRUE, hash |-> TRUE, read |-> TRUE]
    /\ gPc = "idle" /\ gRepo = FALSE /\ gErr = NoErr /\ gClones = <<>> /\ gData = FALSE

InitGit ==
    /\ gEnv \in [user : {"", "u"}, pass : {"", "p"}]
    /\ gWorld \in [anon : BOOLEAN, auth : BOOLEAN, ref : BOOLEAN, worktree : BOOLEAN,
                   branch : BOOLEAN, hash : BOOLEAN, read : BOOLEAN]
    /\ gPc = "clone" /\ gRepo = FALSE /\ gErr = NoErr /\ gClones = <<>> /\ gData = FALSE

\* Lines 99-102: the clone without credentials.
CloneAnonymous ==
    /\ gPc = "clone"
    /\ gClones' = Append(gClones, NoAuth)
    /\ IF gWorld.anon
       THEN gRepo' = TRUE /\ gErr' = NoErr /\ gPc' = "checkout"
       ELSE gRepo' = FALSE /\ gErr' = "cloneAnonymous" /\ gPc' = "cloneFailed"
    /\ UNCHANGED <<gEnv, gWorld, gData>>

\* Lines 105-110: err is not nil and basicAuthFromEnv gives credentials.
CloneWithAuth ==
    /\ gPc = "cloneFailed"
    /\ BasicAuthFromEnv(gEnv).set
    /\ gClones' = Append(gClones, BasicAuthFromEnv(gEnv))
    /\ IF gWorld.auth
       THEN gRepo' = TRUE /\ gErr' = NoErr /\ gPc' = "checkout"
       ELSE gRepo' = FALSE /\ gErr' = "cloneWithAuth" /\ gPc' = "done"
    /\ UNCHANGED <<gEnv, gWorld, gData>>

\* Lines 105, 111-113: no credentials, the first clone's error is returned.
CloneGiveUp ==
    /\ gPc = "cloneFailed"
    /\ ~BasicAuthFromEnv(gEnv).set
    /\ gPc' = "done"
    /\ UNCHANGED <<gEnv, gWorld, gRepo, gErr, gClones, gData>>

\* Lines 116-126.
Checkout ==
    /\ gPc = "checkout"
    /\ IF ~gWorld.ref THEN gPc' = "read" /\ gErr' = NoErr
       ELSE IF ~gWorld.worktree THEN gPc' = "done" /\ gErr' = "worktree"
       ELSE IF gWorld.branch \/ gWorld.hash THEN gPc' = "read" /\ gErr' = NoErr
       ELSE gPc' = "done" /\ gErr' = "checkout"
    /\ UNCHANGED <<gEnv, gWorld, gRepo, gClones, gData>>

\* Lines 128-133.
ReadTarget ==
    /\ gPc = "read"
    /\ gPc' = "done"
    /\ IF gWorld.read THEN gData' = TRUE /\ gErr' = NoErr
       ELSE gData' = FALSE /\ gErr' = "readFile"
    /\ UNCHANGED <<gEnv, gWorld, gRepo, gClones>>

(***************************************************************************)
(* Resolver.Expand.  A text is a sequence of characters; the variable      *)
(* table maps names to texts.                                              *)
(***************************************************************************)
Chars == {"$", "{", "}", "A", "_", "x"}

\* The class [A-Z0-9_] of envPattern.
IsNameChar(c) == c \in {"A", "_"}

\* The end of the run of name characters that starts at j: the first index
\* from j on that holds no name character.
RECURSIVE NameEnd(_, _)
NameEnd(text, j) ==
    IF j <= Len(text) /\ IsNameChar(text[j]) THEN NameEnd(text, j + 1) ELSE j

\* envPattern anchored at i: the index of the closing brace of the match of
\* \$\{([A-Z0-9_]+)\} that starts at i, or 0 when there is none.
MatchEnd(text, i) ==
    IF i + 1 <= Len(text) /\ text[i] = "$" /\ text[i + 1] = "{"
    THEN LET e == NameEnd(text, i + 2)
         IN  IF e > i + 2 /\ e <= Len(text) /\ text[e] = "}" THEN e ELSE 0
    ELSE 0

\* A callback that drops the placeholder of an unset variable, as os.Expand
\* does.
ReplaceMatchOrEmpty(match, table) ==
    LET key == SubSeq(match, 3, Len(match) - 1)
    IN  IF key \in DOMAIN table THEN table[key] ELSE <<>>

\* The callback of ReplaceAllFunc, lines 46-56.
ReplaceMatch(match, table) ==
    LET key == SubSeq(match, 3, Len(match) - 1)
    IN  IF key \in DOMAIN table THEN table[key] ELSE match

\* ReplaceAllFunc: the leftmost matches, left to right, without overlap; the
\* replacement is not scanned again.
RECURSIVE ReplaceAllFrom(_, _, _)
ReplaceAllFrom(text, i, table) ==
    IF i > Len(text) THEN <<>>
    ELSE LET e == MatchEnd(text, i)
         IN  IF e = 0
             THEN <<text[i]>> \o ReplaceAllFrom(text, i + 1, table)
             ELSE ReplaceMatch(SubSeq(text, i, e), table)
                  \o ReplaceAllFrom(text, e + 1, table)

Expand(text, table) == [err |-> NoErr, out |-> ReplaceAllFrom(text, 1, table)]

Tables ==
    { <<>>,
      (<<"A">> :> <<"x">>),
      (<<"A">> :> <<"$", "{", "_", "}">>) @@ (<<"_">> :> <<>>) }

NotExpanded == [err |-> "pending", out |-> <<>>]

IdleExpand == xText = <<>> /\ xTable = <<>> /\ xOut = NotExpanded

\* The texts: up to MaxPieces pieces, each one character or one placeholder.
TextPieces ==
    {<<c>> : c \in Chars}
    \cup {<<"$", "{", "A", "}">>, <<"$", "{", "_", "}">>, <<"$", "{", "A", "_", "}">>}

RECURSIVE Flatten(_)
Flatten(ps) == IF ps = <<>> THEN <<>> ELSE Head(ps) \o Flatten(Tail(ps))

Texts == {Flatten(ps) : ps \in SeqsUpTo(TextPieces, MaxPieces)}

InitExpand ==
    /\ xText \in Texts
    /\ xTable \in Tables
    /\ xOut = NotExpanded

ExpandText ==
    /\ xOut = NotExpanded
    /\ xOut' = Expand(xText, xTable)
    /\ UNCHANGED <<xText, xTable>>

(***************************************************************************)
(* Resolver.ExpandMap: expansion of the strings of a decoded mapping, in   *)
(* place.  Expand returns a nil error on every input (line 56), so the     *)
(* error returns of ExpandMap are never taken and the order in which the   *)
(* keys are ranged over does not show in the result.                       *)
(***************************************************************************)
RECURSIVE ExpandMap(_, _)

\* One item of a list, lines 114-125: a string is expanded, a mapping is
\* walked, any other item (a list among them) is left as it is.
ExpandItem(item, table) ==
    CASE item.t = "str" -> Str(Expand(item.v, table).out)
      [] item.t = "map" -> ExpandMap(item, table)
      [] OTHER -> item

\* The type switch on one value of the mapping, lines 101-127.
ExpandEntry(val, table) ==
    CASE val.t = "str" -> Str(Expand(val.v, table).out)
      [] val.t = "map" -> ExpandMap(val, table)
      [] val.t = "list" -> List([i \in DOMAIN val.v |-> ExpandItem(val.v[i], table)])
      [] OTHER -> val

\* The mapping after the call.
ExpandMap(values, table) ==
    Map([key \in DOMAIN values.v |-> ExpandEntry(values.v[key], table)])

NotWalked == [err |-> "pending", val |-> Null]

IdleExpandMap == eValues = EmptyMap /\ eTable = <<>> /\ eOut = NotWalked

\* Leaves: strings with and without a placeholder, and the other scalars.
ExpandLeaves ==
    { Str(<<"$", "{", "A", "}">>), Str(<<"x">>), Str(<<"$", "{", "_", "}">>),
      Str(<<"x", "$", "{", "A", "}">>), Num(5), Bool(TRUE), Null }

\* A leaf under the nestings of mappings and lists a decoded tree can have.
Nestings(leaf) ==
    { leaf,
      List(<<leaf>>),
      List(<<Num(5), leaf>>),
      List(<<List(<<leaf>>)>>),
      One(K("k"), leaf),
      One(K("k"), List(<<leaf>>)),
      List(<<One(K("k"), leaf)>>),
      List(<<List(<<One(K("k"), leaf)>>)>>) }

ExpandTrees ==
    { One(K("a"), val) : val \in UNION {Nestings(leaf) : leaf \in ExpandLeaves} }
    \cup { Two(K("a"), Str(<<"$", "{", "A", "}">>), K("b"), val) :
              val \in Nestings(Str(<<"$", "{", "_", "}">>)) }

InitExpandMap ==
    /\ eValues \in ExpandTrees
    /\ eTable \in Tables
    /\ eOut = NotWalked

\* One call of ExpandMap; eOut.val is the caller's mapping after it.
ExpandTree ==
    /\ eOut = NotWalked
    /\ eOut' = [err |-> NoErr, val |-> ExpandMap(eValues, eTable)]
    /\ UNCHANGED <<eValues, eTable>>

(***************************************************************************)
(* Specifications: one per component, the others at rest.                  *)
(***************************************************************************)
Init == InitLoad /\ IdleDecrypt /\ IdleMerge /\ IdleGit /\ IdleExpand /\ IdleExpandMap

Next ==
    \/ ReadBase /\ UNCHANGED <<decVars, mergeVars, gitVars, expandVars, expandMapVars>>
    \/ ReadExtra /\ UNCHANGED <<decVars, mergeVars, gitVars, expandVars, expandMapVars>>
    \/ Return /\ UNCHANGED <<decVars, mergeVars, gitVars, expandVars, expandMapVars>>

Spec == Init /\ [][Next]_vars

InitDec == IdleLoad /\ InitDecrypt /\ IdleMerge /\ IdleGit /\ IdleExpand /\ IdleExpandMap

NextDec == ResolveSecrets /\ UNCHANGED <<loadVars, mergeVars, gitVars, expandVars, expandMapVars>>

SpecDecrypt == InitDec /\ [][NextDec]_vars

InitMrg == IdleLoad /\ IdleDecrypt /\ InitMerge /\ IdleGit /\ IdleExpand /\ IdleExpandMap

NextMrg == MergeLayer /\ UNCHANGED <<loadVars, decVars, gitVars, expandVars, expandMapVars>>

SpecMerge == InitMrg /\ [][NextMrg]_vars

InitFetch == IdleLoad /\ IdleDecrypt /\ IdleMerge /\ InitGit /\ IdleExpand /\ IdleExpandMap

NextFetch ==
    \/ CloneAnonymous /\ UNCHANGED <<loadVars, decVars, mergeVars, expandVars, expandMapVars>>
    \/ CloneWithAuth /\ UNCHANGED <<loadVars, decVars, mergeVars, expandVars, expandMapVars>>
    \/ CloneGiveUp /\ UNCHANGED <<loadVars, decVars, mergeVars, expandVars, expandMapVars>>
    \/ Checkout /\ UNCHANGED <<loadVars, decVars, mergeVars, expandVars, expandMapVars>>
    \/ ReadTarget /\ UNCHANGED <<loadVars, decVars, mergeVars, expandVars, expandMapVars>>

SpecGit == InitFetch /\ [][NextFetch]_vars

InitExp == IdleLoad /\ IdleDecrypt /\ IdleMerge /\ IdleGit /\ InitExpand /\ IdleExpandMap

NextExp == ExpandText /\ UNCHANGED <<loadVars, decVars, mergeVars, gitVars, expandMapVars>>

SpecExpand == InitExp /\ [][NextExp]_vars

InitExpMap ==
    IdleLoad /\ IdleDecrypt /\ IdleMerge /\ IdleGit /\ IdleExpand /\ InitExpandMap

NextExpMap ==
    ExpandTree /\ UNCHANGED <<loadVars, decVars, mergeVars, gitVars, expandVars>>

SpecExpandMap == InitExpMap /\ [][NextExpMap]_vars

(***************************************************************************)
(* Definitions the properties below are stated with.                       *)
(***************************************************************************)
Range(q) == {q[i] : i \in DOMAIN q}

IsScalar(n) == n.t \in {"str", "num", "bool", "null"}

IsPrefix(q, p) == Len(q) <= Len(p) /\ SubSeq(p, 1, Len(q)) = q

\* The nodes of a tree: each path of mapping keys with what sits there, the
\* value of a leaf or the mark of a mapping.
RECURSIVE NodesAt(_, _)
NodesAt(path, n) ==
    IF n.t = "map"
    THEN {[path |-> path, tag |-> EmptyMap]}
         \cup UNION {NodesAt(Append(path, k), n.v[k]) : k \in DOMAIN n.v}
    ELSE {[path |-> path, tag |-> n]}

Nodes(tree) == NodesAt(<<>>, tree)

KeyPaths(tree) == {n.path : n \in Nodes(tree)} \ {<<>>}

\* Every mapping key of a value, at any depth, through mappings and lists.
RECURSIVE AllKeys(_)
AllKeys(n) ==
    CASE n.t = "map" -> DOMAIN n.v \cup UNION {AllKeys(n.v[k]) : k \in DOMAIN n.v}
      [] n.t = "list" -> UNION {AllKeys(n.v[i]) : i \in DOMAIN n.v}
      [] OTHER -> {}

\* The entries [key, val] of every mapping of a value, at any depth.
RECURSIVE AllEntries(_)
AllEntries(n) ==
    CASE n.t = "map" ->
           {[key |-> k, val |-> n.v[k]] : k \in DOMAIN n.v}
           \cup UNION {AllEntries(n.v[k]) : k \in DOMAIN n.v}
      [] n.t = "list" -> UNION {AllEntries(n.v[i]) : i \in DOMAIN n.v}
      [] OTHER -> {}

\* The string leaves of a value with the mapping key that encloses each: a
\* string in a list is enclosed by the key the list sits under.
RECURSIVE StringLeaves(_, _)
StringLeaves(key, n) ==
    CASE n.t = "map" -> UNION {StringLeaves(k, n.v[k]) : k \in DOMAIN n.v}
      [] n.t = "list" -> UNION {StringLeaves(key, n.v[i]) : i \in DOMAIN n.v}
      [] n.t = "str" -> {[key |-> key, str |-> n.v]}
      [] OTHER -> {}

FileAt(i) == IF i = 0 THEN chartFile ELSE extraFiles[i]

MissingBase(i) == i = 0 /\ FileAt(i).scheme = "local" /\ FileAt(i).fetch = "notexist"

\* A stage of file i fails: the fetch or read, the decode, or a decryption.
StageFails(i) ==
    LET f == FileAt(i)
    IN  \/ f.fetch # "ok"
        \/ f.doc.kind = "bad"
        \/ DecryptValues(f.doc.tree, BaseDirOf(f)).err # NoErr

FilesRead == {readLog[j].i : j \in DOMAIN readLog}

(***************************************************************************)
(* C1: a Load in which a stage of a file fails (fetch or read of an extra  *)
(* file, decode, decryption) returns an error and no tree.                 *)
(***************************************************************************)
C1_FailedStageFailsLoad ==
    (pc = "done" /\ \E i \in FilesRead : StageFails(i) /\ ~MissingBase(i))
        => (err # NoErr /\ result = NoTree)

(***************************************************************************)
(* C2: the files are read in the order base, e1, e2, ...; a successful     *)
(* Load returns the left fold of the merge over the files' trees, so the   *)
(* last file that sets a scalar key decides it; no file is read after a    *)
(* failing one.                                                            *)
(***************************************************************************)
RECURSIVE FoldMerge(_, _)
FoldMerge(acc, ls) ==
    IF ls = <<>> THEN acc ELSE FoldMerge(Merge(acc, Head(ls)), Tail(ls))

\* The tree file i contributes when every stage of it succeeds.
ResolvedTree(i) ==
    IF MissingBase(i) THEN EmptyMap
    ELSE DecryptValues(FileAt(i).doc.tree, BaseDirOf(FileAt(i))).val

LastSetterWins(tree, ls) ==
    \A k \in UNION {DOMAIN ls[j].v : j \in DOMAIN ls} :
        LET setters == {j \in DOMAIN ls : k \in DOMAIN ls[j].v}
            last == CHOOSE j \in setters : \A o \in setters : o <= j
        IN  (\A j \in setters : IsScalar(ls[j].v[k])) => tree.v[k] = ls[last].v[k]

C2_OrderedLeftFold ==
    /\ \A j \in DOMAIN readLog : readLog[j].i = j - 1
    /\ \A j \in DOMAIN readLog :
         (StageFails(readLog[j].i) /\ ~MissingBase(readLog[j].i)) => j = Len(readLog)
    /\ (pc = "done" /\ err = NoErr) =>
         LET trees == [j \in 1..(Len(extraFiles) + 1) |-> ResolvedTree(j - 1)]
         IN  /\ result = FoldMerge(EmptyMap, trees)
             /\ LastSetterWins(result, trees)

(***************************************************************************)
(* C3: a missing base file counts as an empty tree, so Load returns the    *)
(* merge of the extra files ({"a": 1} alone gives {"a": 1}); any other     *)
(* failure of the base file (read, decode, decryption) makes Load return   *)
(* an error.                                                               *)
(***************************************************************************)
C3_MissingBaseOnlyTolerated ==
    pc = "done" =>
        /\ (MissingBase(0) /\ \A i \in 1..Len(extraFiles) : ~StageFails(i)) =>
              /\ err = NoErr
              /\ result = FoldMerge(EmptyMap, [j \in 1..Len(extraFiles) |-> ResolvedTree(j)])
              /\ Len(extraFiles) = 1 => result = ResolvedTree(1)
        /\ (StageFails(0) /\ ~MissingBase(0)) => err # NoErr

(***************************************************************************)
(* C4: the tree decryptor hands a string leaf to decryptFile exactly when  *)
(* the mapping key that encloses it ends in ".enc"; the string under a     *)
(* marked key is replaced by its plaintext under the stripped key, and a   *)
(* string under an unmarked key is kept as it is.                          *)
(***************************************************************************)
PathOfRef(ref, baseDir) ==
    IF ~IsAbs(ref) /\ baseDir # <<>> THEN Join(baseDir, ref) ELSE ref

C4_DecryptedIffKeyMarked ==
    (dOut # Pending /\ dOut.err = NoErr) =>
        /\ \A leaf \in StringLeaves(<<>>, dIn.node) :
              (PathOfRef(leaf.str, dIn.baseDir) \in Range(dOut.log))
                  <=> HasSuffix(leaf.key, Enc)
        /\ \A k \in DOMAIN dIn.node.v :
              (dIn.node.v[k].t = "str" /\ Cardinality(DOMAIN dIn.node.v) = 1) =>
                  IF HasSuffix(k, Enc)
                  THEN /\ TrimSuffix(k, Enc) \in DOMAIN dOut.val.v
                       /\ dOut.val.v[TrimSuffix(k, Enc)]
                            = DecryptValue(dIn.node.v[k].v, dIn.baseDir).val
                  ELSE /\ k \in DOMAIN dOut.val.v
                       /\ dOut.val.v[k] = dIn.node.v[k]

(***************************************************************************)
(* C5: when the tree decryptor succeeds, no mapping key of the output, at  *)
(* any depth, ends in ".enc".                                              *)
(***************************************************************************)
C5_NoEncKeyInOutput ==
    (dOut # Pending /\ dOut.err = NoErr) =>
        \A k \in AllKeys(dOut.val) : ~HasSuffix(k, Enc)

(***************************************************************************)
(* C6: a key ending in ".enc" whose value is not a string makes the tree   *)
(* decryptor fail; the value is never passed through.                      *)
(***************************************************************************)
C6_EncKeyOnNonStringFails ==
    (dOut # Pending
       /\ \E e \in AllEntries(dIn.node) : HasSuffix(e.key, Enc) /\ e.val.t # "str")
        => dOut.err # NoErr

(***************************************************************************)
(* C7: merging an incoming layer is a deep merge with override.  Path by   *)
(* path: what the incoming layer holds at a path is in the result (a leaf  *)
(* with its value, whatever it replaces and however empty it is; a mapping *)
(* as a mapping), and what only the accumulator holds at a path stays,     *)
(* unless the incoming layer holds a leaf at a prefix of the path.         *)
(***************************************************************************)
HasLeafAtPrefix(tree, p) ==
    \E n \in Nodes(tree) : n.tag # EmptyMap /\ IsPrefix(n.path, p)

ExpectedNodes(acc, inc) ==
    Nodes(inc)
    \cup {n \in Nodes(acc) :
            /\ ~HasLeafAtPrefix(inc, n.path)
            /\ n.path \notin {m.path : m \in Nodes(inc)}}

C7_DeepMergeWithOverride ==
    Len(mLayers) >= 2 =>
        /\ Nodes(mAcc) = ExpectedNodes(mPrev, mInc)
        /\ (/\ mPrev = One(K("a"), One(K("x"), Num(1)))
            /\ mInc = One(K("a"), Str(<<"scalar">>)))
              => mAcc = One(K("a"), Str(<<"scalar">>))

C7_Witness ==
    /\ mPrev = One(K("a"), Two(K("x"), Num(1), K("y"), Num(2)))
    /\ mInc = One(K("a"), Two(K("y"), Num(3), K("z"), Num(4)))
    /\ mAcc = One(K("a"), Map((K("x") :> Num(1)) @@ (K("y") :> Num(3))
                              @@ (K("z") :> Num(4))))

(***************************************************************************)
(* C8: after any sequence of merges, a key path of the accumulator or of   *)
(* a layer is still in the result unless a later layer holds a scalar at   *)
(* the path or at a prefix of it.                                          *)
(***************************************************************************)
Overrides(tree, p, kinds) ==
    \E n \in Nodes(tree) : n.path # <<>> /\ IsPrefix(n.path, p) /\ n.tag.t \in kinds

KeptUnlessOverridden(kinds) ==
    \A i \in DOMAIN mLayers :
        \A p \in KeyPaths(mLayers[i]) :
            \/ p \in KeyPaths(mAcc)
            \/ \E j \in DOMAIN mLayers : j > i /\ Overrides(mLayers[j], p, kinds)

C8_DroppedOnlyByScalar ==
    KeptUnlessOverridden({"str", "num", "bool", "null"})

\* C8 as amended: ... unless a later layer holds a scalar or a list at the
\* path or at a prefix of it.
C8_DroppedOnlyByScalarOrList ==
    KeptUnlessOverridden({"str", "num", "bool", "null", "list"})

C8_Witness ==
    /\ mLayers = <<One(K("a"), One(K("x"), Num(1))), One(K("b"), Num(1)),
                   One(K("a"), List(<<>>))>>
    /\ <<K("a"), K("x")>> \notin KeyPaths(mAcc)
    /\ <<K("b")>> \in KeyPaths(mAcc)

(***************************************************************************)
(* C9: the clone with credentials is attempted at most once, only after    *)
(* the anonymous clone failed, and only when both TMPL_GIT_USERNAME and    *)
(* TMPL_GIT_PASSWORD are set; otherwise there is no retry and the failure  *)
(* of the anonymous clone is what Fetch returns.                           *)
(***************************************************************************)
AuthClones == {i \in DOMAIN gClones : gClones[i].set}

RetryDiscipline ==
    /\ Cardinality(AuthClones) <= 1
    /\ \A i \in AuthClones : i = 2 /\ ~gClones[1].set /\ ~gWorld.anon

NoRetry == Len(gClones) = 1 /\ gErr = "cloneAnonymous"

NameChars == {"A", "_"}

\* The placeholders of a text, each as <<first, last>>.
Placeholders(text) ==
    {pq \in (1..Len(text)) \X (1..Len(text)) :
        /\ pq[2] >= pq[1] + 3
        /\ text[pq[1]] = "$" /\ text[pq[1] + 1] = "{" /\ text[pq[2]] = "}"
        /\ \A m \in (pq[1] + 2)..(pq[2] - 1) : text[m] \in NameChars}

\* What position i of the text contributes to the output.
Piece(text, table, i) ==
    LET starts == {pq \in Placeholders(text) : pq[1] = i}
        inside == {pq \in Placeholders(text) : pq[1] < i /\ i <= pq[2]}
    IN  IF starts # {}
        THEN LET pq == CHOOSE x \in starts : TRUE
                 name == SubSeq(text, pq[1] + 2, pq[2] - 1)
             IN  IF name \in DOMAIN table THEN table[name]
                 ELSE SubSeq(text, pq[1], pq[2])
        ELSE IF inside # {} THEN <<>>
        ELSE <<text[i]>>

C10_ExpandSubstitutes ==
    xOut # NotExpanded =>
        /\ xOut.err = NoErr
        /\ xOut.out = Flatten([i \in 1..Len(xText) |-> Piece(xText, xTable, i)])
        /\ Placeholders(xText) = {} => xOut.out = xText
        /\ DOMAIN xTable = {} => xOut.out = xText

C10_Witness ==
    /\ xText = <<"$", "{", "A", "}", "x", "$", "{", "A", "_", "}">>
    /\ xTable = (<<"A">> :> <<"x">>)
    /\ xOut = [err |-> NoErr, out |-> <<"x", "x", "$", "{", "A", "_", "}">>]

(***************************************************************************)
(* C11: the tree decryptor visits the keys of each mapping in ascending    *)
(* (lexicographic) order, depth-first: the paths handed to decryptFile are *)
(* those of the keys one after the other in that order, each key's own     *)
(* calls together; the first failure ends the walk, so nothing of a later  *)
(* key is decrypted and the error is the one of the smallest failing key.  *)
(***************************************************************************)
\* The elements of a set of keys as the one ascending sequence.
Ascending(S) ==
    CHOOSE q \in [1..Cardinality(S) -> S] :
        \A i, j \in DOMAIN q : i < j => StringLess(q[i], q[j])

\* Every mapping of a value, at any depth, through mappings and lists.
RECURSIVE MapsOf(_)
MapsOf(n) ==
    CASE n.t = "map" -> {n} \cup UNION {MapsOf(n.v[k]) : k \in DOMAIN n.v}
      [] n.t = "list" -> UNION {MapsOf(n.v[i]) : i \in DOMAIN n.v}
      [] OTHER -> {}

\* r is what the walk of mapping m gives when its keys are taken in
\* ascending order up to the first key that fails.
VisitedInOrder(m, baseDir, r) ==
    LET ks == Ascending(DOMAIN m.v)
        sub == [i \in DOMAIN ks |-> DecryptValues(m.v[ks[i]], baseDir)]
        failing == {i \in DOMAIN ks : sub[i].err # NoErr}
        upto == IF failing = {} THEN Len(ks)
                ELSE CHOOSE i \in failing : \A o \in failing : i <= o
    IN  /\ r.log = Flatten([i \in 1..upto |-> sub[i].log])
        /\ r.err = (IF failing = {} THEN NoErr ELSE sub[upto].err)

C11_SortedDepthFirstWalk ==
    dOut # Pending =>
        /\ VisitedInOrder(dIn.node, dIn.baseDir, dOut)
        /\ \A m \in MapsOf(dIn.node) :
              VisitedInOrder(m, dIn.baseDir, DecryptValues(m, dIn.baseDir))

C11_Witness ==
    /\ dIn = [node |-> Two(K("a"), Str(<<"bad", ".enc">>),
                           KEnc("a"), Str(<<"gone", ".enc">>)),
              baseDir |-> ChartDir]
    /\ dOut = [err |-> "sops", val |-> Null, log |-> <<<<"chart/", "bad", ".enc">>>>]

(***************************************************************************)
(* C12: ExpandMap expands every string leaf of the tree, at every depth    *)
(* and under every nesting of mappings and lists, a string in a list that  *)
(* is an element of a list included; the other leaves stay as they were.   *)
(***************************************************************************)
\* The tree with every string leaf expanded and nothing else changed.
RECURSIVE EveryStringExpanded(_, _)
EveryStringExpanded(n, table) ==
    CASE n.t = "str" -> Str(Expand(n.v, table).out)
      [] n.t = "map" -> Map([k \in DOMAIN n.v |-> EveryStringExpanded(n.v[k], table)])
      [] n.t = "list" -> List([i \in DOMAIN n.v |-> EveryStringExpanded(n.v[i], table)])
      [] OTHER -> n

C12_EveryStringLeafExpanded ==
    eOut # NotWalked =>
        /\ eOut.err = NoErr
        /\ eOut.val = EveryStringExpanded(eValues, eTable)
====
